---- MODULE Spec2Model ----
(***************************************************************************)
(* QuerySchemaBuilder (query-engine/core/src/schema/builders/              *)
(* query_schema_builder.rs): new() wires the four sub-builders, build()    *)
(* makes the root query type, the root mutation type, and collects the     *)
(* sub-builders' caches into the flat lists of the QuerySchema.            *)
(*                                                                         *)
(* Strings are sequences of one-character strings, so that format!,        *)
(* camel_case and pluralize are computed and names can collide.            *)
(***************************************************************************)
EXTENDS Naturals, Sequences, FiniteSets, TLC

VARIABLES
  models,           \* internal_data_model.models(): Seq of model records
  order,            \* order in which the four sub-builders are constructed
  pc,               \* position in new() / build()
  constructed,      \* sub-builders that exist
  strong,           \* Arc strong count of each Arc-held sub-builder
  weak,             \* Arc weak count of each Arc-held sub-builder
  caches,           \* the caches of the object, input and filter builders
  idx,              \* index of the next model of the running pass
  query_fields,     \* fields of the "Query" object type
  mutation_fields,  \* fields of the "Mutation" object type
  weak_at_collect,  \* builders with an upgradeable Weak when collect_types began
  output_objects,   \* collect_types / build local
  input_objects,    \* collect_types local
  filter_objects,   \* collect_types local
  schema            \* the QuerySchema returned by build(), or NoSchema

vars == <<models, order, pc, constructed, strong, weak, caches, idx, query_fields,
          mutation_fields, weak_at_collect, output_objects, input_objects,
          filter_objects, schema>>

\* ------------------------------------------------------------ bounds
MaxModels == 2

\* ------------------------------------------------------------ strings
User == <<"U", "s", "e", "r">>
Users == <<"U", "s", "e", "r", "s">>
Tag == <<"T", "a", "g">>
ModelNames == {User, Users, Tag}

NoName == <<>>

Range(s) == {s[i] : i \in DOMAIN s}

Lower(c) ==
  CASE c = "U" -> "u"
    [] c = "T" -> "t"
    [] OTHER -> c

\* utils::camel_case on an identifier without separators: first letter lowered.
camel_case(s) == IF s = <<>> THEN s ELSE <<Lower(Head(s))>> \o Tail(s)

\* utils::pluralize on a regular noun: the plural suffix is appended.
pluralize(s) == s \o <<"s">>

\* ------------------------------------------------------------ data model
Option_None == <<>>
Some(x) == <<x>>

ModelRecords ==
  [name : ModelNames, is_embedded : BOOLEAN, unique : BOOLEAN,
   settable : BOOLEAN, rel : BOOLEAN]

ModelsOfLen(n) ==
  {dm \in [1..n -> ModelRecords] :
     \A i, j \in 1..n : i # j => dm[i].name # dm[j].name}

DataModels == UNION {ModelsOfLen(n) : n \in 0..MaxModels}

IndexOf(dm, name) == CHOOSE i \in DOMAIN dm : dm[i].name = name

\* The model a relation field of the model named `name` points to: the next
\* model of the data model (cyclically), when the model has a relation field.
Related(dm, name) ==
  IF \E i \in DOMAIN dm : dm[i].name = name /\ dm[i].rel
  THEN Some(dm[(IndexOf(dm, name) % Len(dm)) + 1].name)
  ELSE Option_None

\* ------------------------------------------------------------ types
T(kind, name) == [kind |-> kind, model |-> name]

ObjectKinds == {"Object", "BatchPayload"}
InputKinds == {"WhereUniqueInput", "CreateInput", "UpdateInput", "UpdateManyMutationInput"}
FilterKinds == {"WhereInput"}
Scalar == T("Scalar", NoName)
QueryRoot == T("Query", NoName)
MutationRoot == T("Mutation", NoName)

CacheOf(t) ==
  CASE t.kind \in ObjectKinds -> "object"
    [] t.kind \in InputKinds -> "input"
    [] t.kind \in FilterKinds -> "filter"
    [] OTHER -> "none"

\* The types a built type's fields refer to.
Refs(dm, t) ==
  LET r == Related(dm, t.model) IN
  CASE t.kind = "Object" ->
         IF r = Option_None THEN <<>>
         ELSE <<T("WhereInput", r[1]), T("Object", r[1])>>
    [] t.kind = "WhereInput" ->
         IF r = Option_None THEN <<>> ELSE <<T("WhereInput", r[1])>>
    [] OTHER -> <<>>

EmptyCaches == [object |-> <<>>, input |-> <<>>, filter |-> <<>>]

RECURSIVE AddType(_, _, _)
RECURSIVE AddAll(_, _, _)
\* A builder's memoized construction: a type already cached is returned as it
\* is, a new one is cached and the types its fields refer to are built.
AddType(dm, c, t) ==
  LET k == CacheOf(t) IN
  IF k = "none" \/ t \in Range(c[k]) THEN c
  ELSE AddAll(dm, [c EXCEPT ![k] = Append(@, t)], Refs(dm, t))

AddAll(dm, c, ts) ==
  IF ts = <<>> THEN c ELSE AddAll(dm, AddType(dm, c, Head(ts)), Tail(ts))

\* ------------------------------------------------------------ schema parts
argument(name, typ) == [name |-> name, typ |-> typ]

field(name, args, typ) == [name |-> name, arguments |-> args, field_type |-> typ]

OutputType_object(t) == [wrap |-> <<>>, obj |-> t]
OutputType_opt(o) == [wrap |-> <<"opt">> \o o.wrap, obj |-> o.obj]
OutputType_list(o) == [wrap |-> <<"list">> \o o.wrap, obj |-> o.obj]

append_opt(vec, opt) == vec \o opt

\* ------------------------------------------------------------ sub-builders
map_model_object_type(m) == T("Object", m.name)

batch_payload_object_type == T("BatchPayload", NoName)

many_records_arguments(m) ==
  <<argument("where", T("WhereInput", m.name)), argument("orderBy", Scalar),
    argument("skip", Scalar), argument("after", Scalar), argument("before", Scalar),
    argument("first", Scalar), argument("last", Scalar)>>

where_unique_argument(m) ==
  IF m.unique THEN Some(argument("where", T("WhereUniqueInput", m.name)))
  ELSE Option_None

create_arguments(m) ==
  IF m.settable THEN Some(<<argument("data", T("CreateInput", m.name))>>)
  ELSE Option_None

delete_arguments(m) ==
  IF where_unique_argument(m) = Option_None THEN Option_None
  ELSE Some(where_unique_argument(m))

update_arguments(m) ==
  IF where_unique_argument(m) = Option_None THEN Option_None
  ELSE Some(<<argument("data", T("UpdateInput", m.name))>> \o where_unique_argument(m))

upsert_arguments(m) ==
  IF where_unique_argument(m) = Option_None THEN Option_None
  ELSE Some(where_unique_argument(m)
            \o <<argument("create", T("CreateInput", m.name)),
                 argument("update", T("UpdateInput", m.name))>>)

update_many_arguments(m) ==
  <<argument("data", T("UpdateManyMutationInput", m.name)),
    argument("where", T("WhereInput", m.name))>>

delete_many_arguments(m) == <<argument("where", T("WhereInput", m.name))>>

\* ------------------------------------------------------------ field names
str_create == <<"c", "r", "e", "a", "t", "e">>
str_delete == <<"d", "e", "l", "e", "t", "e">>
str_update == <<"u", "p", "d", "a", "t", "e">>
str_upsert == <<"u", "p", "s", "e", "r", "t">>
str_Many == <<"M", "a", "n", "y">>

\* ------------------------------------------------------------ fields
all_items_field(m) ==
  field(camel_case(pluralize(m.name)),
        many_records_arguments(m),
        OutputType_list(OutputType_opt(OutputType_object(map_model_object_type(m)))))

\* single_item_field with the missing argument defaulted instead of mapped.
single_item_field_always(m) ==
  Some(field(camel_case(m.name),
             where_unique_argument(m),
             OutputType_opt(OutputType_object(map_model_object_type(m)))))

single_item_field(m) ==
  IF where_unique_argument(m) = Option_None THEN Option_None
  ELSE Some(field(camel_case(m.name),
                  where_unique_argument(m),
                  OutputType_opt(OutputType_object(map_model_object_type(m)))))

create_item_field(m) ==
  field(str_create \o m.name,
        IF create_arguments(m) = Option_None THEN <<>> ELSE create_arguments(m)[1],
        OutputType_object(map_model_object_type(m)))

delete_item_field(m) ==
  IF delete_arguments(m) = Option_None THEN Option_None
  ELSE Some(field(str_delete \o m.name,
                  delete_arguments(m)[1],
                  OutputType_opt(OutputType_object(map_model_object_type(m)))))

update_item_field(m) ==
  IF update_arguments(m) = Option_None THEN Option_None
  ELSE Some(field(str_update \o m.name,
                  update_arguments(m)[1],
                  OutputType_opt(OutputType_object(map_model_object_type(m)))))

\* upsert_item_field with the optional return type of update_item_field.
upsert_item_field_opt(m) ==
  IF upsert_arguments(m) = Option_None THEN Option_None
  ELSE Some(field(str_upsert \o m.name,
                  upsert_arguments(m)[1],
                  OutputType_opt(OutputType_object(map_model_object_type(m)))))

upsert_item_field(m) ==
  IF upsert_arguments(m) = Option_None THEN Option_None
  ELSE Some(field(str_upsert \o m.name,
                  upsert_arguments(m)[1],
                  OutputType_object(map_model_object_type(m))))

update_many_field(m) ==
  field(str_update \o str_Many \o pluralize(m.name),
        update_many_arguments(m),
        OutputType_object(batch_payload_object_type))

delete_many_field(m) ==
  field(str_delete \o str_Many \o pluralize(m.name),
        delete_many_arguments(m),
        OutputType_object(batch_payload_object_type))

RECURSIVE SelectNonEmbedded(_)
SelectNonEmbedded(dm) ==
  IF dm = <<>> THEN <<>>
  ELSE (IF Head(dm).is_embedded THEN <<>> ELSE <<Head(dm)>>)
       \o SelectNonEmbedded(Tail(dm))

\* non_embedded_models without its filter.
non_embedded_models_unfiltered == models

non_embedded_models == SelectNonEmbedded(models)

\* The body of the closure of build_query_type, for one model.
query_fields_of(m) == append_opt(<<all_items_field(m)>>, single_item_field(m))

\* The closure of build_mutation_type without the update field.
mutation_fields_of_no_update(m) ==
  append_opt(append_opt(<<create_item_field(m)>>, delete_item_field(m)),
             upsert_item_field(m))
  \o <<update_many_field(m), delete_many_field(m)>>

\* The body of the closure of build_mutation_type, for one model.
mutation_fields_of(m) ==
  append_opt(append_opt(append_opt(<<create_item_field(m)>>, delete_item_field(m)),
                        update_item_field(m)),
             upsert_item_field(m))
  \o <<update_many_field(m), delete_many_field(m)>>

\* The types a field's construction asks the sub-builders for: its arguments'
\* types, then its output type.
FieldTypes(f) ==
  [i \in 1..Len(f.arguments) |-> f.arguments[i].typ] \o <<f.field_type.obj>>

RECURSIVE Touch(_, _, _)
Touch(dm, c, fs) ==
  IF fs = <<>> THEN c
  ELSE Touch(dm, AddAll(dm, c, FieldTypes(Head(fs))), Tail(fs))

\* ------------------------------------------------------------ new()
Builders == {"filter", "input", "object", "argument"}
ArcBuilders == {"filter", "input", "object"}

\* The order of the four constructions in new().
NewOrder == <<"filter", "input", "object", "argument">>

backref(to, is_strong) == [to |-> to, is_strong |-> is_strong]

\* new() with Arc::clone in place of Arc::downgrade for the argument builder.
BackRefs_strong(b) ==
  CASE b = "filter" -> {}
    [] b = "input" -> {backref("filter", FALSE)}
    [] b = "object" -> {backref("filter", FALSE)}
    [] b = "argument" -> {backref("input", TRUE), backref("object", TRUE)}

\* new() with an input-type builder that is not given the filter builder.
BackRefs_no_filter(b) ==
  CASE b = "filter" -> {}
    [] b = "input" -> {}
    [] b = "object" -> {backref("filter", FALSE)}
    [] b = "argument" -> {backref("input", FALSE), backref("object", FALSE)}

\* The handles new() passes to the constructor of sub-builder b.
BackRefs(b) ==
  CASE b = "filter" -> {}
    [] b = "input" -> {backref("filter", FALSE)}
    [] b = "object" -> {backref("filter", FALSE)}
    [] b = "argument" -> {backref("input", FALSE), backref("object", FALSE)}

Handles(b, x, is_strong) ==
  Cardinality({r \in BackRefs(b) : r.to = x /\ r.is_strong = is_strong})

Minus(a, b) == IF a >= b THEN a - b ELSE 0

\* Sub-builder b is constructed: Arc::new gives it one strong reference, each
\* handle it is given counts on the builder it points to.
Construct(b) ==
  /\ constructed' = constructed \cup {b}
  /\ strong' = [x \in ArcBuilders |->
                  (IF x = b THEN 1 ELSE strong[x]) + Handles(b, x, TRUE)]
  /\ weak' = [x \in ArcBuilders |-> weak[x] + Handles(b, x, FALSE)]

\* Sub-builder b is dropped, and the handles it holds with it.
DropBuilder(b, s) == [x \in ArcBuilders |-> Minus(s[x], Handles(b, x, TRUE))]
DropWeak(b, w) == [x \in ArcBuilders |-> Minus(w[x], Handles(b, x, FALSE))]

NextBuilder == order[Cardinality(constructed) + 1]

New ==
  /\ pc = "new"
  /\ \A r \in BackRefs(NextBuilder) : r.to \in constructed
  /\ Construct(NextBuilder)
  /\ pc' = IF Cardinality(constructed) = 3 THEN "query" ELSE "new"
  /\ UNCHANGED <<models, order, caches, idx, query_fields, mutation_fields,
                 weak_at_collect, output_objects, input_objects, filter_objects,
                 schema>>

\* ------------------------------------------------------------ build()
BuildQueryStep ==
  /\ pc = "query"
  /\ idx <= Len(non_embedded_models)
  /\ LET fs == query_fields_of(non_embedded_models[idx]) IN
       /\ query_fields' = query_fields \o fs
       /\ caches' = Touch(models, caches, fs)
  /\ idx' = idx + 1
  /\ UNCHANGED <<models, order, pc, constructed, strong, weak, mutation_fields,
                 weak_at_collect, output_objects, input_objects, filter_objects,
                 schema>>

BuildQueryType ==
  /\ pc = "query"
  /\ idx > Len(non_embedded_models)
  /\ pc' = "mutation"
  /\ idx' = 1
  /\ UNCHANGED <<models, order, constructed, strong, weak, caches, query_fields,
                 mutation_fields, weak_at_collect, output_objects, input_objects,
                 filter_objects, schema>>

BuildMutationStep ==
  /\ pc = "mutation"
  /\ idx <= Len(non_embedded_models)
  /\ LET fs == mutation_fields_of(non_embedded_models[idx]) IN
       /\ mutation_fields' = mutation_fields \o fs
       /\ caches' = Touch(models, caches, fs)
  /\ idx' = idx + 1
  /\ UNCHANGED <<models, order, pc, constructed, strong, weak, query_fields,
                 weak_at_collect, output_objects, input_objects, filter_objects,
                 schema>>

\* A Weak can be upgraded as long as the builder it points to has a strong
\* reference.
Upgradeable == {b \in ArcBuilders : weak[b] > 0 /\ strong[b] > 0}

BuildMutationType ==
  /\ pc = "mutation"
  /\ idx > Len(non_embedded_models)
  /\ pc' = "collect_object"
  /\ weak_at_collect' = Upgradeable
  /\ UNCHANGED <<models, order, constructed, strong, weak, caches, idx, query_fields,
                 mutation_fields, output_objects, input_objects, filter_objects,
                 schema>>

\* ------------------------------------------------------------ collect_types
\* An unwrap that also fails on outstanding weak handles.
try_unwrap_no_weak(b) == strong[b] = 1 /\ weak[b] = 0

\* Arc::try_unwrap(b) is Ok exactly when b's strong count is 1.
try_unwrap(b) == strong[b] = 1

\* Arc::try_unwrap(b).unwrap().into_strong_refs(): the builder is consumed and
\* its cache moved out, or the unwrap panics and build() returns nothing.
Unwrap(b, next) ==
  IF try_unwrap(b)
  THEN /\ pc' = next
       /\ constructed' = constructed \ {b}
       /\ strong' = DropBuilder(b, [strong EXCEPT ![b] = 0])
       /\ weak' = DropWeak(b, weak)
  ELSE /\ pc' = "panicked"
       /\ constructed' = {}
       /\ strong' = [x \in ArcBuilders |-> 0]
       /\ weak' = [x \in ArcBuilders |-> 0]

UnwrapObject ==
  /\ pc = "collect_object"
  /\ Unwrap("object", "collect_input")
  /\ output_objects' = IF try_unwrap("object") THEN caches.object ELSE <<>>
  /\ UNCHANGED <<models, order, caches, idx, query_fields, mutation_fields,
                 weak_at_collect, input_objects, filter_objects, schema>>

UnwrapInput ==
  /\ pc = "collect_input"
  /\ Unwrap("input", "collect_filter")
  /\ input_objects' = IF try_unwrap("input") THEN caches.input ELSE <<>>
  /\ UNCHANGED <<models, order, caches, idx, query_fields, mutation_fields,
                 weak_at_collect, output_objects, filter_objects, schema>>

UnwrapFilter ==
  /\ pc = "collect_filter"
  /\ Unwrap("filter", "finish")
  /\ filter_objects' = IF try_unwrap("filter") THEN caches.filter ELSE <<>>
  /\ UNCHANGED <<models, order, caches, idx, query_fields, mutation_fields,
                 weak_at_collect, output_objects, input_objects, schema>>

\* collect_types without the append of the filter objects.
collect_types_inputs_dropped(inputs, filters) == inputs

\* build() without the push of the mutation root.
build_outputs_query_only(outputs) == Append(outputs, QueryRoot)

\* input_objects.append(&mut filter_objects)
collect_types_inputs(inputs, filters) == inputs \o filters

\* output_objects.push(query_object_ref); output_objects.push(mutation_object_ref)
build_outputs(outputs) == Append(Append(outputs, QueryRoot), MutationRoot)

QuerySchema_new(query, mutation, inputs, outputs) ==
  [query |-> query, mutation |-> mutation,
   input_object_types |-> inputs, output_object_types |-> outputs]

NoSchema == <<>>

\* The rest of collect_types and of build(): the lists are merged, what is
\* left of the orchestrator (the argument builder) is dropped, the roots are
\* pushed and the schema is made.
Finish ==
  /\ pc = "finish"
  /\ pc' = "done"
  /\ input_objects' = collect_types_inputs(input_objects, filter_objects)
  /\ filter_objects' = <<>>
  /\ output_objects' = build_outputs(output_objects)
  /\ constructed' = constructed \ {"argument"}
  /\ strong' = DropBuilder("argument", strong)
  /\ weak' = DropWeak("argument", weak)
  /\ schema' = Some(QuerySchema_new(query_fields, mutation_fields,
                                    input_objects', output_objects'))
  /\ UNCHANGED <<models, order, caches, idx, query_fields, mutation_fields,
                 weak_at_collect>>

\* ------------------------------------------------------------ specification
InitBuild ==
  /\ pc = "new"
  /\ constructed = {}
  /\ strong = [x \in ArcBuilders |-> 0]
  /\ weak = [x \in ArcBuilders |-> 0]
  /\ caches = EmptyCaches
  /\ idx = 1
  /\ query_fields = <<>>
  /\ mutation_fields = <<>>
  /\ weak_at_collect = {}
  /\ output_objects = <<>>
  /\ input_objects = <<>>
  /\ filter_objects = <<>>
  /\ schema = NoSchema

Init ==
  /\ models \in DataModels
  /\ order = NewOrder
  /\ InitBuild

Next ==
  \/ New
  \/ BuildQueryStep
  \/ BuildQueryType
  \/ BuildMutationStep
  \/ BuildMutationType
  \/ UnwrapObject
  \/ UnwrapInput
  \/ UnwrapFilter
  \/ Finish

Spec == Init /\ [][Next]_vars

\* ------------------------------------------------------------ orderings of new()
RECURSIVE Perms(_)
Perms(S) ==
  IF S = {} THEN {<<>>}
  ELSE UNION {{<<b>> \o p : p \in Perms(S \ {b})} : b \in S}

\* A construction that needs a handle to a builder that does not exist yet
\* cannot be written.
NewRejected ==
  /\ pc = "new"
  /\ \E r \in BackRefs(NextBuilder) : r.to \notin constructed
  /\ pc' = "invalid"
  /\ UNCHANGED <<models, order, constructed, strong, weak, caches, idx, query_fields,
                 mutation_fields, weak_at_collect, output_objects, input_objects,
                 filter_objects, schema>>

InitOrder ==
  /\ models \in ModelsOfLen(0) \cup ModelsOfLen(1)
  /\ order \in Perms(Builders)
  /\ InitBuild

NextOrder ==
  \/ New
  \/ NewRejected

SpecOrder == InitOrder /\ [][NextOrder]_vars

\* ------------------------------------------------------------ properties
Built == schema[1]

FieldModels(f) ==
  ({f.field_type.obj.model} \cup {f.arguments[i].typ.model : i \in DOMAIN f.arguments})
  \ {NoName}

FieldsFor(fs, name) == {i \in DOMAIN fs : name \in FieldModels(fs[i])}

HasField(fs, nm, name) == \E i \in FieldsFor(fs, name) : fs[i].name = nm

NamesFor(fs, name) == {fs[i].name : i \in FieldsFor(fs, name)}

Count(s, t) == Cardinality({i \in DOMAIN s : s[i] = t})

NoDuplicates(s) == \A i, j \in DOMAIN s : i # j => s[i] # s[j]

NonEmbedded == {models[i] : i \in {j \in DOMAIN models : ~models[j].is_embedded}}

Embedded == {models[i] : i \in {j \in DOMAIN models : models[j].is_embedded}}

\* C1: a non-embedded model with a unique-selector argument has its list and
\* single-item fields in the root query type and its six fields in the root
\* mutation type of the schema build() returns.
C1_UniqueModelFields ==
  pc = "done" =>
    \A m \in NonEmbedded :
      where_unique_argument(m) # Option_None =>
        /\ HasField(Built.query, camel_case(pluralize(m.name)), m.name)
        /\ HasField(Built.query, camel_case(m.name), m.name)
        /\ HasField(Built.mutation, str_create \o m.name, m.name)
        /\ HasField(Built.mutation, str_delete \o m.name, m.name)
        /\ HasField(Built.mutation, str_update \o m.name, m.name)
        /\ HasField(Built.mutation, str_upsert \o m.name, m.name)
        /\ HasField(Built.mutation, str_update \o str_Many \o pluralize(m.name), m.name)
        /\ HasField(Built.mutation, str_delete \o str_Many \o pluralize(m.name), m.name)
        /\ Cardinality(FieldsFor(Built.query, m.name)) = 2
        /\ Cardinality(FieldsFor(Built.mutation, m.name)) = 6

C1_Witness ==
  /\ pc = "done"
  /\ Len(models) = 2
  /\ \E m \in NonEmbedded : m.unique /\ ~m.settable
  /\ \E m \in NonEmbedded : ~m.unique

\* C2: a non-embedded model without a unique-selector argument has exactly
\* its list field in the root query type and exactly its create, updateMany
\* and deleteMany fields in the root mutation type, and build() does not fail.
C2_NonUniqueModelFields ==
  /\ pc # "panicked"
  /\ pc = "done" =>
       /\ schema # NoSchema
       /\ \A m \in NonEmbedded :
            where_unique_argument(m) = Option_None =>
              /\ Cardinality(FieldsFor(Built.query, m.name)) = 1
              /\ NamesFor(Built.query, m.name) = {camel_case(pluralize(m.name))}
              /\ Cardinality(FieldsFor(Built.mutation, m.name)) = 3
              /\ NamesFor(Built.mutation, m.name) =
                   {str_create \o m.name,
                    str_update \o str_Many \o pluralize(m.name),
                    str_delete \o str_Many \o pluralize(m.name)}

C2_Witness ==
  /\ pc = "done"
  /\ schema # NoSchema
  /\ \E m \in NonEmbedded : ~m.unique /\ m.settable
  /\ \E m \in NonEmbedded : m.unique

\* C3: no field of the root query type or of the root mutation type refers
\* to an embedded model, whatever its unique key and settable fields.
C3_NoEmbeddedRootFields ==
  \A m \in Embedded :
    /\ FieldsFor(query_fields, m.name) = {}
    /\ FieldsFor(mutation_fields, m.name) = {}
    /\ pc = "done" =>
         /\ FieldsFor(Built.query, m.name) = {}
         /\ FieldsFor(Built.mutation, m.name) = {}

C3_Witness ==
  /\ pc = "done"
  /\ \E m \in Embedded : m.unique /\ m.settable
  /\ \E m \in NonEmbedded : m.rel
  /\ Built.mutation # <<>>

\* The types reachable from a set of types through the fields of the types.
RECURSIVE Reach(_, _)
Reach(dm, S) ==
  LET S2 == S \cup UNION {Range(Refs(dm, t)) : t \in S} IN
  IF S2 = S THEN S ELSE Reach(dm, S2)

RootTypes(fs) == UNION {Range(FieldTypes(fs[i])) : i \in DOMAIN fs}

Reachable(s) ==
  {QueryRoot, MutationRoot} \cup Reach(models, RootTypes(s.query) \cup RootTypes(s.mutation))

\* C4: every object type and input object type reachable from the roots is
\* exactly once in its flat list; the input list is the input cache followed
\* by the filter cache, the output list the object cache followed by the
\* Query and Mutation roots, without duplicates.
C4_CollectionComplete ==
  pc = "done" =>
    /\ \A t \in Reachable(Built) :
         /\ (CacheOf(t) = "object" \/ t \in {QueryRoot, MutationRoot})
              => Count(Built.output_object_types, t) = 1
         /\ CacheOf(t) \in {"input", "filter"}
              => Count(Built.input_object_types, t) = 1
    /\ Built.input_object_types = caches.input \o caches.filter
    /\ Built.output_object_types = caches.object \o <<QueryRoot, MutationRoot>>
    /\ NoDuplicates(Built.input_object_types)
    /\ NoDuplicates(Built.output_object_types)

C4_Witness ==
  /\ pc = "done"
  /\ \E t \in Reachable(Built) :
       /\ CacheOf(t) = "filter"
       /\ t \notin RootTypes(Built.query) \cup RootTypes(Built.mutation)
  /\ \E t \in Reachable(Built) :
       /\ CacheOf(t) = "object"
       /\ t \notin RootTypes(Built.query) \cup RootTypes(Built.mutation)
  /\ \E t \in Reachable(Built) : CacheOf(t) = "input"

ObjectRef(m) == [wrap |-> <<>>, obj |-> T("Object", m.name)]
OptObjectRef(m) == [wrap |-> <<"opt">>, obj |-> T("Object", m.name)]
ListOptObjectRef(m) == [wrap |-> <<"list", "opt">>, obj |-> T("Object", m.name)]
BatchPayloadRef == [wrap |-> <<>>, obj |-> T("BatchPayload", NoName)]

\* The return shapes a query field named nm of model m may have.
QueryShapes(nm, m) ==
  (IF nm = camel_case(pluralize(m.name)) THEN {ListOptObjectRef(m)} ELSE {})
  \cup (IF nm = camel_case(m.name) THEN {OptObjectRef(m)} ELSE {})

\* The return shapes a mutation field named nm of model m may have.
MutationShapes(nm, m) ==
  (IF nm \in {str_create \o m.name, str_upsert \o m.name} THEN {ObjectRef(m)} ELSE {})
  \cup (IF nm \in {str_delete \o m.name, str_update \o m.name}
        THEN {OptObjectRef(m)} ELSE {})
  \cup (IF nm \in {str_update \o str_Many \o pluralize(m.name),
                   str_delete \o str_Many \o pluralize(m.name)}
        THEN {BatchPayloadRef} ELSE {})

ModelOf(f) == CHOOSE m \in Range(models) : m.name \in FieldModels(f)

\* C6: every root field has the return shape of its kind: list(opt(object))
\* for a list field, opt(object) for single-item, delete and update, object
\* for create and upsert, the one batch payload object for updateMany and
\* deleteMany.
C6_ReturnShapes ==
  /\ \A i \in DOMAIN query_fields :
       LET f == query_fields[i] IN
         /\ Cardinality(FieldModels(f)) = 1
         /\ QueryShapes(f.name, ModelOf(f)) = {f.field_type}
  /\ \A i \in DOMAIN mutation_fields :
       LET f == mutation_fields[i] IN
         /\ Cardinality(FieldModels(f)) = 1
         /\ MutationShapes(f.name, ModelOf(f)) = {f.field_type}
  /\ pc = "done" => Built.query = query_fields /\ Built.mutation = mutation_fields

C6_Witness ==
  /\ pc = "done"
  /\ Len(Built.query) = 4
  /\ Len(Built.mutation) = 12

\* C7: for a data model without models build() returns a schema whose roots
\* have no fields, whose input list is empty and whose output list is the
\* Query root followed by the Mutation root.
C7_EmptyDataModel ==
  models = <<>> =>
    /\ pc # "panicked"
    /\ pc = "done" =>
         schema = Some([query |-> <<>>, mutation |-> <<>>,
                        input_object_types |-> <<>>,
                        output_object_types |-> <<QueryRoot, MutationRoot>>])

C7_Witness == models = <<>> /\ pc = "done" /\ schema # NoSchema

\* C8: under the wiring of new(), when collect_types unwraps the object,
\* the input and the filter builder, in that order, the orchestrator holds
\* the only strong reference to it: no unwrap fails and build() never aborts.
C8_SoleOwnerAtUnwrap ==
  /\ pc # "panicked"
  /\ \A b \in ArcBuilders : pc = "collect_" \o b => strong[b] = 1
  /\ pc \in {"query", "mutation", "collect_object"} =>
       \A b \in ArcBuilders : strong[b] = 1
  /\ pc = "collect_input" => "object" \notin constructed
  /\ pc = "collect_filter" => {"object", "input"} \cap constructed = {}

C8_Witness ==
  /\ pc = "collect_filter"
  /\ strong["filter"] = 1
  /\ weak["filter"] = 0
  /\ Len(models) = 2

OrderSwapped == <<"filter", "object", "input", "argument">>

\* C9 as stated: the order of new() is the only order of the four
\* constructions in which every handle points to a constructed builder.
C9_OnlyOrdering == pc = "query" => order = NewOrder

\* C9, amended: new() constructs filter, input, object, argument, handing
\* input and object a weak handle to filter and argument weak handles to
\* input and object; an order of the four constructions hands out no handle
\* to a builder not yet constructed exactly when it is that order or the one
\* with input and object swapped.
C9_ValidOrderings ==
  /\ pc = "query" =>
       /\ order \in {NewOrder, OrderSwapped}
       /\ weak = [x \in ArcBuilders |-> IF x = "filter" THEN 2 ELSE 1]
       /\ strong = [x \in ArcBuilders |-> 1]
  /\ pc = "invalid" => order \notin {NewOrder, OrderSwapped}

C9_Witness ==
  /\ pc = "query"
  /\ order = NewOrder
  /\ constructed = Builders
  /\ weak["filter"] = 2

FieldNames(fs) == [i \in DOMAIN fs |-> fs[i].name]

\* C10: when the model names are pairwise distinct, the field names of the
\* root query type are pairwise distinct, and so are those of the root
\* mutation type.
C10_DistinctFieldNames ==
  pc = "done" =>
    /\ NoDuplicates(FieldNames(Built.query))
    /\ NoDuplicates(FieldNames(Built.mutation))

====
